---------------------------- MODULE Spec2Model ----------------------------
(***************************************************************************)
(* Model of the news collection engine of health-trend-report-v2           *)
(* (src/collect_news.py): the retrying GET primitive _get, the paginated   *)
(* page collector collect_naver_news with its dual-layout parser           *)
(* _parse_naver_page, the feed collector collect_google_news and the       *)
(* composing entry point collect_all_news with its title deduplication.    *)
(*                                                                         *)
(* Strings are sequences of atoms.  An atom is one character, or, inside   *)
(* URLs and dates, one indivisible word; Hangul syllables of the source's  *)
(* literals are written as one romanised atom per syllable, so len()       *)
(* counts are kept.                                                        *)
(***************************************************************************)
EXTENDS Integers, Sequences, FiniteSets, TLC

(***************************************************************************)
(* Configuration imported from config (src/collect_news.py:15-24).  The    *)
(* config module is not among the sources; the values are small ones that  *)
(* keep every branch of the collectors reachable: a page can overshoot    *)
(* the cap, two pages can stay below it.                                   *)
(***************************************************************************)
MAX_RETRIES == 3
MAX_ARTICLES_PER_QUERY == 3
MAX_PAGES_PER_QUERY == 2

(***************************************************************************)
(* Bounds of the model.                                                    *)
(***************************************************************************)
NumQueries == 2
MaxContainers == 2
MaxTitleLen == 9
MaxFeedLen == 4
MaxCalls == 3

(***************************************************************************)
(* str methods used by the source.                                         *)
(***************************************************************************)
Whitespace == {" ", "\t", "\n"}

UpperToLower == [c \in {"F", "N", "C", "H"} |->
                   CASE c = "F" -> "f" [] c = "N" -> "n"
                     [] c = "C" -> "c" [] c = "H" -> "h"]

LowerChar(c) == IF c \in DOMAIN UpperToLower THEN UpperToLower[c] ELSE c

\* str.lower()
Lower(s) == [i \in 1..Len(s) |-> LowerChar(s[i])]

RECURSIVE LStrip(_)
LStrip(s) == IF s = <<>> THEN s
             ELSE IF Head(s) \in Whitespace THEN LStrip(Tail(s)) ELSE s

RECURSIVE RStrip(_)
RStrip(s) == IF s = <<>> THEN s
             ELSE IF s[Len(s)] \in Whitespace
                  THEN RStrip(SubSeq(s, 1, Len(s) - 1)) ELSE s

\* str.strip()
Strip(s) == RStrip(LStrip(s))

\* the positions at which sub occurs in s
Occurrences(s, sub) ==
    {i \in 1..(Len(s) - Len(sub) + 1) : SubSeq(s, i, i + Len(sub) - 1) = sub}

\* sub in s
Contains(s, sub) == Occurrences(s, sub) # {}

SetMax(S) == CHOOSE m \in S : \A n \in S : n <= m

\* s.rsplit(sep, 1)[0]
RSplitHead(s, sep) ==
    IF Contains(s, sep)
    THEN SubSeq(s, 1, SetMax(Occurrences(s, sep)) - 1)
    ELSE s

\* the concatenation of a sequence of sequences
RECURSIVE Flatten(_)
Flatten(ss) == IF ss = <<>> THEN <<>> ELSE Head(ss) \o Flatten(Tail(ss))

\* sep.join(parts)
RECURSIVE Join(_, _)
Join(parts, sep) ==
    IF parts = <<>> THEN <<>>
    ELSE IF Len(parts) = 1 THEN parts[1]
    ELSE parts[1] \o sep \o Join(Tail(parts), sep)

\* Tag.get_text(sep, strip=True) over the text nodes of a tag, in document
\* order: every node is stripped, the empty ones are dropped, the rest joined
GetText(nodes, sep) ==
    Join(SelectSeq([i \in 1..Len(nodes) |-> Strip(nodes[i])],
                   LAMBDA t : t # <<>>),
         sep)

\* datetime.now().strftime("%Y-%m-%d")
today == <<"2026-11-02">>

(***************************************************************************)
(* _parse_naver_page.  A document is what the selectors of the parser see  *)
(* of it: cards are the div.YWTMk0ahJUsxq4uCx9gX containers, li_bx the     *)
(* "ul.list_news > li.bx" items and news_wrap the "div.news_wrap" ones,    *)
(* all in document order.  A card has its anchors with an href (links)     *)
(* and its span.sds-comps-profile-info-subtext elements (spans).  A legacy *)
(* item has, per selector, the first matching element as a sequence of     *)
(* length 0 (no match) or 1.  The text of an element is the sequence of    *)
(* its text nodes.                                                         *)
(***************************************************************************)
ArticleViewMarker == <<"articleView">>
NaverHostMarker == <<"n.news.naver.com">>

\* ("분 전", "시간 전", "일 전", "어제", "방금")
TimeKeywords == {<<"bun", " ", "jeon">>, <<"si", "gan", " ", "jeon">>,
                 <<"il", " ", "jeon">>, <<"eo", "je">>, <<"bang", "geum">>}

\* {"네이버뉴스", "Keep에 저장", "뉴스", ""}
UI_TITLES == {<<"ne", "i", "beo", "nyu", "seu">>,
              <<"K", "e", "e", "p", "e_", " ", "jeo", "jang">>,
              <<"nyu", "seu">>, <<>>}

MIN_TITLE_LEN == 5

Article(source, query, title, desc, link, published) ==
    [date |-> today, source |-> source, query |-> query, title |-> title,
     description |-> desc, link |-> link, published |-> published]

ArticleLinks(card) ==
    SelectSeq(card.links,
              LAMBDA a : Contains(a.href, ArticleViewMarker)
                         \/ Contains(a.href, NaverHostMarker))

TimeSpans(card) ==
    SelectSeq(card.spans,
              LAMBDA t : \E k \in TimeKeywords :
                             Contains(GetText(t, <<>>), k))

\* one iteration of the loop over news_list: the items it appends
ParseCard(card, query) ==
    LET article_links == ArticleLinks(card)
        title == GetText(article_links[1].text, <<>>)
        link == article_links[1].href
        desc == IF Len(article_links) >= 2
                THEN GetText(article_links[2].text, <<>>) ELSE <<>>
        published == IF TimeSpans(card) # <<>>
                     THEN GetText(TimeSpans(card)[1], <<>>) ELSE today
    IN  IF Len(article_links) < 1 THEN <<>>
        ELSE IF Len(title) < MIN_TITLE_LEN \/ title \in UI_TITLES THEN <<>>
        ELSE IF title # <<>>
             THEN <<Article("naver", query, title, desc, link, published)>>
             ELSE <<>>

ParseCurrent(news_list, query) ==
    Flatten([i \in 1..Len(news_list) |-> ParseCard(news_list[i], query)])

\* a or b or c over select_one results
FirstMatch(cands) == LET hit == SelectSeq(cands, LAMBDA c : c # <<>>)
                     IN  IF hit = <<>> THEN <<>> ELSE hit[1]

\* one iteration of the loop over news_list_old
ParseLegacyItem(li, query) ==
    LET title_tag == li.news_tit
        desc_tag == FirstMatch(<<li.dsc_a, li.dsc_txt_wrap, li.dsc_txt>>)
        date_tag == FirstMatch(<<li.info, li.info_group>>)
    IN  IF title_tag = <<>> THEN <<>>
        ELSE <<Article("naver", query,
                       GetText(title_tag[1].text, <<>>),
                       IF desc_tag # <<>>
                       THEN GetText(desc_tag[1], <<>>) ELSE <<>>,
                       title_tag[1].href,
                       IF date_tag # <<>>
                       THEN GetText(date_tag[1], <<>>) ELSE today)>>

ParseLegacy(news_list_old, query) ==
    Flatten([i \in 1..Len(news_list_old) |->
                ParseLegacyItem(news_list_old[i], query)])

\* mutant: the first layout that yields an item is used
ParseNaverPageFirstNonEmpty(html, query) ==
    IF ParseCurrent(html.cards, query) # <<>>
    THEN ParseCurrent(html.cards, query)
    ELSE ParseLegacy(IF html.li_bx # <<>> THEN html.li_bx ELSE html.news_wrap,
                     query)

\* lines 123-125, 168-173, 199
ParseNaverPage(html, query) ==
    IF html.cards # <<>>
    THEN ParseCurrent(html.cards, query)
    ELSE ParseLegacy(IF html.li_bx # <<>> THEN html.li_bx ELSE html.news_wrap,
                     query)

(***************************************************************************)
(* Provider content the model draws from.                                  *)
(***************************************************************************)
tFluNews == <<"F", "l", "u", " ", "N", "e", "w", "s">>
tflunews == <<"f", "l", "u", " ", "n", "e", "w", "s">>
tColds == <<"C", "o", "l", "d", "s">>
tNews == <<"N", "e", "w", "s">>
tNaverNews == <<"ne", "i", "beo", "nyu", "seu">>
tAgo == <<"3", "bun", " ", "jeon">>
tPress == <<"H", "D">>

hView1 == <<"https://", "news.example", "/", "articleView", "?id=1">>
hView2 == <<"https://", "news.example", "/", "articleView", "?id=2">>
hNaver == <<"https://", "n.news.naver.com", "/a/3">>
hOther == <<"https://", "keep.example", "/save">>
hOld1 == <<"https://", "old.example", "/1">>
hOld2 == <<"https://", "old.example", "/2">>

Anchor(href, nodes) == [href |-> href, text |-> nodes]

\* current-layout containers
cFlu == [links |-> <<Anchor(hView1, <<tFluNews>>),
                     Anchor(hView1, <<<<" ">> \o tColds>>)>>,
         spans |-> <<<<tPress>>, <<tAgo>>>>]
cflu == [links |-> <<Anchor(hOther, <<tNews>>), Anchor(hNaver, <<tflunews>>)>>,
         spans |-> <<>>]
cSplit == [links |-> <<Anchor(hView2, <<<<"C", "o", "l">>, <<" ", "d", "s">>>>)>>,
           spans |-> <<<<tPress>>>>]
cShort == [links |-> <<Anchor(hView2, <<tNews>>)>>, spans |-> <<>>]
cUi == [links |-> <<Anchor(hNaver, <<tNaverNews>>)>>, spans |-> <<<<tAgo>>>>]
cNoLink == [links |-> <<Anchor(hOther, <<tFluNews>>)>>, spans |-> <<>>]

LegacyItem(tit, a, w, t, info, group) ==
    [news_tit |-> tit, dsc_a |-> a, dsc_txt_wrap |-> w, dsc_txt |-> t,
     info |-> info, info_group |-> group]

\* legacy-layout items
lFlu == LegacyItem(<<Anchor(hOld1, <<tflunews \o <<" ">>>>)>>,
                   <<>>, <<<<tColds>>>>, <<<<tNews>>>>, <<<<tAgo>>>>, <<>>)
lBlank == LegacyItem(<<Anchor(hOld2, <<>>)>>,
                     <<>>, <<>>, <<>>, <<>>, <<>>)
lNoTit == LegacyItem(<<>>, <<<<tColds>>>>, <<>>, <<>>, <<>>, <<<<tAgo>>>>)
lNews == LegacyItem(<<Anchor(hOld2, <<tNews>>)>>,
                    <<>>, <<>>, <<<<tColds>>>>, <<>>, <<<<tPress>>>>)
lColds == LegacyItem(<<Anchor(hOld1, <<tColds>>)>>,
                     <<<<tNews>>>>, <<>>, <<>>, <<>>, <<>>)

Document(cards, li_bx, news_wrap) ==
    [cards |-> cards, li_bx |-> li_bx, news_wrap |-> news_wrap]

\* the sequences over S of length at most n
SeqUpTo(S, n) == UNION {[1..k -> S] : k \in 0..n}

CardPool == {cFlu, cflu, cSplit, cShort, cUi, cNoLink}
LiPool == {lFlu, lBlank, lNoTit}
WrapPool == {lNews, lNoTit}

\* the documents the parser is checked on: at most n containers of a kind
Documents(n) ==
    {Document(c, l, w) : c \in SeqUpTo(CardPool, n),
                         l \in SeqUpTo(LiPool, n),
                         w \in SeqUpTo(WrapPool, n)}

\* the pages the page provider serves in a run of the collection: a page
\* whose cards are all rejected (and that has legacy items as well), a page
\* of one card, and a legacy page of three items, one with a blank title
dRejected == Document(<<cUi, cNoLink, cShort>>, <<lFlu>>, <<>>)
dOne == Document(<<cFlu>>, <<>>, <<lNews>>)
dLegacy == Document(<<>>, <<lBlank, lFlu, lColds>>, <<lNews>>)
PageDocs == {dRejected, dOne, dLegacy}

(***************************************************************************)
(* collect_google_news.  A feed is the sequence feed.entries; an entry has *)
(* each key as a sequence of length 0 (key absent) or 1, and its summary   *)
(* as the text nodes of the markup.                                        *)
(***************************************************************************)
TITLE_SEP == <<" ", "-", " ">>

\* dict.get(key, default)
DictGet(field, default) == IF field = <<>> THEN default ELSE field[1]

Entry(title, summary, link, published) ==
    [title |-> title, summary |-> summary, link |-> link,
     published |-> published]

\* mutant: the title is cut at the first separator
CleanTitleFirstSep(rawTitle) ==
    LET raw_title == Strip(rawTitle)
        occ == Occurrences(raw_title, TITLE_SEP)
    IN  IF occ # {}
        THEN SubSeq(raw_title, 1,
                    (CHOOSE m \in occ : \A n \in occ : m <= n) - 1)
        ELSE raw_title

\* lines 86-87
CleanTitle(rawTitle) ==
    LET raw_title == Strip(rawTitle)
    IN  IF Contains(raw_title, TITLE_SEP)
        THEN RSplitHead(raw_title, TITLE_SEP) ELSE raw_title

\* mutant: the record of a feed entry names the page collector as its source
GoogleArticleNaverSource(e, query) ==
    Article("naver", query,
            CleanTitle(DictGet(e.title, <<>>)),
            GetText(DictGet(e.summary, <<>>), <<" ">>),
            DictGet(e.link, <<>>),
            DictGet(e.published, today))

\* lines 86-103: the record appended for one entry
GoogleArticle(e, query) ==
    Article("google", query,
            CleanTitle(DictGet(e.title, <<>>)),
            GetText(DictGet(e.summary, <<>>), <<" ">>),
            DictGet(e.link, <<>>),
            DictGet(e.published, today))

\* mutant: the loop ends once the cap is exceeded
RECURSIVE GoogleEntriesOneMore(_, _, _, _)
GoogleEntriesOneMore(entries, i, count, query) ==
    IF i > Len(entries) \/ count > MAX_ARTICLES_PER_QUERY THEN <<>>
    ELSE <<GoogleArticle(entries[i], query)>>
         \o GoogleEntriesOneMore(entries, i + 1, count + 1, query)

\* lines 80-104: the loop over feed.entries from entry i on
RECURSIVE GoogleEntries(_, _, _, _)
GoogleEntries(entries, i, count, query) ==
    IF i > Len(entries) \/ count >= MAX_ARTICLES_PER_QUERY THEN <<>>
    ELSE <<GoogleArticle(entries[i], query)>>
         \o GoogleEntries(entries, i + 1, count + 1, query)

eFlu == Entry(<<tFluNews \o <<" ">> \o TITLE_SEP \o tPress>>,
              <<<<tColds \o <<" ">>, <<"\n">>, tNews>>>>,
              <<hView1>>, <<<<"Mon, 02 Nov 2026">>>>)
eNoTitle == Entry(<<>>, <<>>, <<>>, <<>>)
eColds == Entry(<<<<" ">> \o tColds>>, <<<<tNews>>>>, <<hView2>>, <<>>)
eNews == Entry(<<tNews \o TITLE_SEP \o tPress>>, <<>>, <<hOld1>>, <<>>)
eTwoSep == Entry(<<tColds \o TITLE_SEP \o tNews \o TITLE_SEP \o tPress>>,
                 <<>>, <<hNaver \o <<" ">>>>, <<<<" ", "Mon, 02 Nov 2026">>>>)

\* the feeds the feed provider serves in a run of the collection
Feeds == {<<eFlu, eNoTitle>>, <<eColds, eTwoSep, eNews, eFlu>>}

(***************************************************************************)
(* collect_all_news: deduplication by title.                               *)
(***************************************************************************)
\* mutant: the key keeps the case of the title
DedupKeyCaseSensitive(article) == Strip(article.title)

\* mutant: the key keeps the whitespace around the title
DedupKeyUntrimmed(article) == Lower(article.title)

\* line 257
DedupKey(article) == Lower(Strip(article.title))

\* mutant: an empty key is kept
IsNewOrEmpty(key, seen) == key \notin seen

\* line 258
IsNew(key, seen) == key # <<>> /\ key \notin seen

\* lines 254-260: the loop over all_raw from record i on
RECURSIVE Dedup(_, _, _)
Dedup(all_raw, i, seen) ==
    IF i > Len(all_raw) THEN <<>>
    ELSE LET key == DedupKey(all_raw[i])
         IN  IF IsNew(key, seen)
             THEN <<all_raw[i]>> \o Dedup(all_raw, i + 1, seen \cup {key})
             ELSE Dedup(all_raw, i + 1, seen)

(***************************************************************************)
(* The run of collect_all_news(queries).                                   *)
(***************************************************************************)
QueryPool == <<<<"f", "l", "u">>,
               <<"d", "i", "e", "t", " ", "t", "i", "p">>,
               <<"s", "l", "e", "e", "p">>,
               <<"g", "u", "t">>>>

\* the argument of collect_all_news
queries == SubSeq(QueryPool, 1, NumQueries)

\* requests.utils.quote on the alphabet of the queries
Quote(s) == [i \in 1..Len(s) |-> IF s[i] = " " THEN "%20" ELSE s[i]]

NaverUrl(query, start) ==
    [template |-> "NAVER_NEWS_URL", query |-> Quote(query), start |-> start]

GoogleUrl(query) ==
    [template |-> "GOOGLE_NEWS_RSS_URL", query |-> Quote(query), start |-> 0]

NoUrl == [template |-> "", query |-> <<>>, start |-> 0]

\* a response whose raise_for_status passes
Response(text) == [ok |-> TRUE, text |-> text]

\* the None that _get returns
None == [ok |-> FALSE, text |-> Document(<<>>, <<>>, <<>>)]

\* the outcome of a request that ended in a requests.RequestException
Failed == [ok |-> FALSE, text |-> Document(<<>>, <<>>, <<>>)]

\* an entry of the trace: what happened (e), at which source line (at), in
\* the iteration of which query (q, an index of queries) and page, and a
\* number n: the count so far for a fetch, the number of items for a page
Event(e, at, q, p, n) == [e |-> e, at |-> at, q |-> q, page |-> p, n |-> n]

\* lines 28-34: _HEADERS, as pairs of a header name and its value
HEADERS ==
    {<<"User-Agent", "USER_AGENT">>,
     <<"Accept",
       "text/html,application/xhtml+xml,application/xml;q=0.9,*/*;q=0.8">>,
     <<"Accept-Language", "ko-KR,ko;q=0.9,en-US;q=0.8">>,
     <<"Accept-Encoding", "gzip, deflate">>,
     <<"Connection", "keep-alive">>}

\* line 74: feedparser.parse(url) is given the url alone, neither agent
\* nor request_headers, so the library sends the headers it has by default
FeedparserHeaders ==
    {<<"User-Agent", "feedparser.USER_AGENT">>,
     <<"Accept", "feedparser.http.ACCEPT_HEADER">>,
     <<"Accept-encoding", "gzip, deflate">>,
     <<"A-IM", "feed">>}

\* the headers of the request of a fetch event: line 50 passes
\* headers=_HEADERS to requests.get, line 74 passes no header
RequestHeaders(ev) == IF ev.at = 217 THEN HEADERS ELSE FeedparserHeaders

VARIABLES
    pc,         \* the position of the run
    qi,         \* collect_naver_news: the index of query in queries
    page,       \* collect_naver_news: page
    count,      \* collect_naver_news: count
    articles,   \* collect_naver_news: articles
    url,        \* the url of the current fetch
    attempt,    \* _get: attempt
    backoff,    \* _get: the time.sleep arguments of this call, in order
    requests,   \* _get: the outcomes of the requests.get calls of this call
    resp,       \* what _get returned
    gi,         \* collect_google_news: the index of query in queries
    google,     \* collect_google_news: articles
    deduped,    \* collect_all_news: deduped
    trace,      \* the fetches, their results and the _sleep calls so far
    sent,       \* <<the number of requests.get calls so far>>, or <<>> in
                \* the runs where they are not counted
    html,       \* _parse_naver_page called alone: its document
    items,      \* _parse_naver_page called alone: its result
    entry,      \* the body of the loop over feed.entries called alone: entry
    record,     \* the body of the loop over feed.entries called alone: result
    feed_entries,  \* the loop over feed.entries called alone: feed.entries
    feed_articles, \* the loop over feed.entries called alone: its records
    trend,      \* append_trend called alone: the file keyword_trend.csv
    latest,     \* append_trend called alone: per date, the last call's keywords
    calls,      \* append_trend called alone: what each call raised, or "none"
    exit_code,  \* main: <<>> while it runs, then <<its exit status>>
    saved       \* main: the persistence calls made so far, in order

vars == <<pc, qi, page, count, articles, url, attempt, backoff, requests,
          resp, gi, google, deduped, trace, sent, html, items, entry,
          record, feed_entries, feed_articles, trend, latest, calls,
          exit_code, saved>>

naverVars == <<qi, page, count, articles>>
getVars == <<url, attempt, backoff, requests, resp>>
googleVars == <<gi, google>>
parseVars == <<html, items>>
entryVars == <<entry, record>>
feedVars == <<feed_entries, feed_articles>>
trendVars == <<trend, latest, calls>>
aloneVars == <<parseVars, entryVars, feedVars, trendVars>>
mainVars == <<exit_code, saved>>

\* the dates main may run on: date_str of main.py line 138, "%Y%m%d"
Dates == {<<"2", "0", "2", "6", "1", "1", "0", "1">>,
          <<"2", "0", "2", "6", "1", "1", "0", "2">>}

\* keyword_trend.csv does not exist; append_trend has not been called
NoFile == [exists |-> FALSE, lines |-> <<>>]
NoCalls == [d \in Dates |-> <<>>]

\* the values of the variables of a function that is not being called
NoEntry == Entry(<<>>, <<>>, <<>>, <<>>)
NoRecord == Article("", <<>>, <<>>, <<>>, <<>>, <<>>)

Init ==
    /\ pc = "naver_query"
    /\ qi = 1
    /\ page = 0
    /\ count = 0
    /\ articles = <<>>
    /\ url = NoUrl
    /\ attempt = 0
    /\ backoff = <<>>
    /\ requests = <<>>
    /\ resp = None
    /\ gi = 1
    /\ google = <<>>
    /\ deduped = <<>>
    /\ trace = <<>>
    /\ sent = <<>>
    /\ html = Document(<<>>, <<>>, <<>>)
    /\ items = <<>>
    /\ entry = NoEntry
    /\ record = NoRecord
    /\ feed_entries = <<>>
    /\ feed_articles = <<>>
    /\ trend = NoFile
    /\ latest = NoCalls
    /\ calls = <<>>
    /\ exit_code = <<>>
    /\ saved = <<>>

\* mutant: the attempts are counted from 0
BackoffSecondsFromZero(a) == 2 ^ (a - 1)

\* line 56: the argument of time.sleep
BackoffSeconds(a) == 2 ^ a

\* mutant: _get sleeps after the last attempt as well
SleepsAfterEvery(a) == a <= MAX_RETRIES

\* line 55
SleepsAfter(a) == a < MAX_RETRIES

\* lines 207-209: the next query of collect_naver_news
NaverQuery ==
    /\ pc = "naver_query"
    /\ qi <= Len(queries)
    /\ count' = 0
    /\ page' = 0
    /\ pc' = "naver_page"
    /\ UNCHANGED <<qi, articles, trace>>
    /\ UNCHANGED <<getVars, googleVars, deduped, aloneVars, mainVars, sent>>

\* mutant: the offset of the first result is counted from 0
StartFromZero(p) == p * 10

\* line 212: start, the offset of the first result of page p
Start(p) == p * 10 + 1

\* lines 211-217: the next page of the query is requested through _get
NaverFetch ==
    /\ pc = "naver_page"
    /\ page < MAX_PAGES_PER_QUERY
    /\ url' = NaverUrl(queries[qi], Start(page))
    /\ attempt' = 1
    /\ backoff' = <<>>
    /\ requests' = <<>>
    /\ trace' = Append(trace, Event("fetch", 217, qi, page, count))
    /\ pc' = "get"
    /\ UNCHANGED <<naverVars, resp, googleVars, deduped, aloneVars, mainVars,
                   sent>>

\* line 211: range(MAX_PAGES_PER_QUERY) is used up
NaverPagesDone ==
    /\ pc = "naver_page"
    /\ page >= MAX_PAGES_PER_QUERY
    /\ pc' = "naver_query_end"
    /\ UNCHANGED <<naverVars, getVars, googleVars, deduped, trace, aloneVars,
                   mainVars, sent>>

\* line 50: one more call of requests.get
Counted(n) == IF n = <<>> THEN n ELSE <<n[1] + 1>>

\* lines 50-52: the request succeeds with a 2xx response, _get returns it
GetOk ==
    /\ pc = "get"
    /\ \E text \in PageDocs :
          /\ requests' = Append(requests, Response(text))
          /\ resp' = Response(text)
    /\ sent' = Counted(sent)
    /\ pc' = "naver_resp"
    /\ UNCHANGED <<naverVars, url, attempt, backoff, googleVars, deduped,
                   trace, aloneVars, mainVars>>

\* mutant: the handler allows one attempt more than MAX_RETRIES
ExceptRequestExtraAttempt ==
    /\ requests' = Append(requests, Failed)
    /\ sent' = Counted(sent)
    /\ backoff' = IF SleepsAfter(attempt)
                  THEN Append(backoff, BackoffSeconds(attempt)) ELSE backoff
    /\ IF attempt <= MAX_RETRIES
       THEN attempt' = attempt + 1 /\ UNCHANGED <<pc, resp>>
       ELSE resp' = None /\ pc' = "naver_resp" /\ UNCHANGED attempt
    /\ UNCHANGED <<naverVars, url, googleVars, deduped, trace, aloneVars,
                   mainVars>>

\* lines 53-57: the handler of requests.RequestException; _get sleeps and
\* tries again, or returns None after the last attempt
ExceptRequestException ==
    /\ requests' = Append(requests, Failed)
    /\ sent' = Counted(sent)
    /\ backoff' = IF SleepsAfter(attempt)
                  THEN Append(backoff, BackoffSeconds(attempt)) ELSE backoff
    /\ IF attempt < MAX_RETRIES
       THEN attempt' = attempt + 1 /\ UNCHANGED <<pc, resp>>
       ELSE resp' = None /\ pc' = "naver_resp" /\ UNCHANGED attempt
    /\ UNCHANGED <<naverVars, url, googleVars, deduped, trace, aloneVars,
                   mainVars>>

\* line 50: requests.get raises (connection error, timeout)
GetTransportError ==
    /\ pc = "get"
    /\ ExceptRequestException

\* line 51: the response is not 2xx, raise_for_status raises HTTPError
GetHttpError ==
    /\ pc = "get"
    /\ ExceptRequestException

\* the locals of _get are gone once the caller has taken its result
GetReturned ==
    /\ url' = NoUrl
    /\ attempt' = 0
    /\ backoff' = <<>>
    /\ requests' = <<>>
    /\ resp' = None

\* mutant: the next page is fetched after a page without a response
NaverNoResponseContinues ==
    /\ pc = "naver_resp"
    /\ ~resp.ok
    /\ trace' = Append(trace, Event("none", 218, qi, page, 0))
    /\ page' = page + 1
    /\ pc' = "naver_page"
    /\ GetReturned
    /\ UNCHANGED <<qi, count, articles, googleVars, deduped, aloneVars,
                   mainVars, sent>>

\* lines 218-220: no response, the pagination of the query stops
NaverNoResponse ==
    /\ pc = "naver_resp"
    /\ ~resp.ok
    /\ trace' = Append(trace, Event("none", 218, qi, page, 0))
    /\ pc' = "naver_query_end"
    /\ GetReturned
    /\ UNCHANGED <<naverVars, googleVars, deduped, aloneVars, mainVars, sent>>

\* mutant: the next page is fetched after a page without an item
NaverEmptyPageContinues ==
    /\ pc = "naver_resp"
    /\ resp.ok
    /\ ParseNaverPage(resp.text, queries[qi]) = <<>>
    /\ trace' = Append(trace, Event("page", 223, qi, page, 0))
    /\ page' = page + 1
    /\ pc' = "naver_page"
    /\ GetReturned
    /\ UNCHANGED <<qi, count, articles, googleVars, deduped, aloneVars,
                   mainVars, sent>>

\* lines 222-225: the page has no item, the pagination of the query stops
NaverEmptyPage ==
    /\ pc = "naver_resp"
    /\ resp.ok
    /\ ParseNaverPage(resp.text, queries[qi]) = <<>>
    /\ trace' = Append(trace, Event("page", 223, qi, page, 0))
    /\ pc' = "naver_query_end"
    /\ GetReturned
    /\ UNCHANGED <<naverVars, googleVars, deduped, aloneVars, mainVars, sent>>

\* mutant: the pagination stops only once the cap is exceeded
CapExceeded(c) == c > MAX_ARTICLES_PER_QUERY

\* line 230
CapReached(c) == c >= MAX_ARTICLES_PER_QUERY

\* lines 222-233: the items of the page are appended; the pagination stops
\* when the cap is reached, and goes on after a _sleep otherwise
NaverAppend ==
    /\ pc = "naver_resp"
    /\ resp.ok
    /\ LET parsed == ParseNaverPage(resp.text, queries[qi])
           got == Event("page", 227, qi, page, Len(parsed))
       IN  /\ parsed # <<>>
           /\ articles' = articles \o parsed
           /\ count' = count + Len(parsed)
           /\ IF CapReached(count')
              THEN /\ trace' = Append(trace, got)
                   /\ pc' = "naver_query_end"
                   /\ UNCHANGED page
              ELSE /\ trace' = trace \o <<got, Event("sleep", 233, qi, page, 0)>>
                   /\ page' = page + 1
                   /\ pc' = "naver_page"
    /\ GetReturned
    /\ UNCHANGED <<qi, googleVars, deduped, aloneVars, mainVars, sent>>

\* mutant: no _sleep after a query
NaverQueryEndNoSleep ==
    /\ pc = "naver_query_end"
    /\ qi' = qi + 1
    /\ pc' = "naver_query"
    /\ UNCHANGED <<page, count, articles, getVars, googleVars, deduped, trace,
                   aloneVars, mainVars, sent>>

\* lines 235-236: the query is done, _sleep before the next one
NaverQueryEnd ==
    /\ pc = "naver_query_end"
    /\ trace' = Append(trace, Event("sleep", 236, qi, page, 0))
    /\ qi' = qi + 1
    /\ pc' = "naver_query"
    /\ UNCHANGED <<page, count, articles, getVars, googleVars, deduped,
                   aloneVars, mainVars, sent>>

\* mutant: collect_naver_news returns from inside the loop over the queries
NaverReturnInLoop ==
    /\ pc = "naver_query"
    /\ qi > 1
    /\ pc' = "google_query"
    /\ UNCHANGED <<naverVars, getVars, googleVars, deduped, trace, aloneVars,
                   mainVars, sent>>

\* lines 238, 249-250: collect_naver_news returns, collect_google_news starts
NaverReturn ==
    /\ pc = "naver_query"
    /\ qi > Len(queries)
    /\ pc' = "google_query"
    /\ UNCHANGED <<naverVars, getVars, googleVars, deduped, trace, aloneVars,
                   mainVars, sent>>

\* mutant: a feed that fails ends the loop over the queries
GoogleFeedErrorBreaks ==
    /\ pc = "google_query"
    /\ gi <= Len(queries)
    /\ trace' = trace \o <<Event("fetch", 74, gi, 0, 0),
                           Event("none", 75, gi, 0, 0),
                           Event("sleep", 77, gi, 0, 0)>>
    /\ gi' = Len(queries) + 1
    /\ UNCHANGED <<pc, naverVars, getVars, google, deduped, aloneVars,
                   mainVars, sent>>

\* lines 69-78: feedparser.parse raises, the query is skipped after a _sleep
GoogleFeedError ==
    /\ pc = "google_query"
    /\ gi <= Len(queries)
    /\ trace' = trace \o <<Event("fetch", 74, gi, 0, 0),
                           Event("none", 75, gi, 0, 0),
                           Event("sleep", 77, gi, 0, 0)>>
    /\ gi' = gi + 1
    /\ UNCHANGED <<pc, naverVars, getVars, google, deduped, aloneVars,
                   mainVars, sent>>

\* lines 69-74, 80-107: the feed of the query is parsed, its entries are
\* appended up to the cap, _sleep
GoogleFeed ==
    /\ pc = "google_query"
    /\ gi <= Len(queries)
    /\ \E feed \in Feeds :
          LET got == GoogleEntries(feed, 1, 0, queries[gi])
          IN  /\ google' = google \o got
              /\ trace' = trace \o <<Event("fetch", 74, gi, 0, 0),
                                     Event("page", 106, gi, 0, Len(got)),
                                     Event("sleep", 107, gi, 0, 0)>>
    /\ gi' = gi + 1
    /\ UNCHANGED <<pc, naverVars, getVars, deduped, aloneVars, mainVars,
                   sent>>

\* lines 109, 251-266: collect_google_news returns, the records of both
\* collectors are concatenated and deduplicated, collect_all_news returns
CollectAll ==
    /\ pc = "google_query"
    /\ gi > Len(queries)
    /\ deduped' = Dedup(articles \o google, 1, {})
    /\ pc' = "done"
    /\ UNCHANGED <<naverVars, getVars, googleVars, trace, aloneVars, mainVars,
                   sent>>

(***************************************************************************)
(* main.py, append_trend (lines 87-113) and the file keyword_trend.csv.    *)
(* A line of the file is text; a row in memory has a date cell with the    *)
(* type pandas gave its column.                                            *)
(***************************************************************************)
DigitChars == <<"0", "1", "2", "3", "4", "5", "6", "7", "8", "9">>
IsDigits(s) == s # <<>> /\ \A i \in DOMAIN s : \E n \in DOMAIN DigitChars : s[i] = DigitChars[n]
DigitValue(c) == (CHOOSE n \in DOMAIN DigitChars : DigitChars[n] = c) - 1

\* int("0042") is 42: the digits of a number start with no zero
RECURSIVE StripZeros(_)
StripZeros(s) ==
    IF Len(s) > 1 /\ s[1] = "0" THEN StripZeros(Tail(s)) ELSE s

StrCell(s) == [t |-> "str", v |-> s]
IntCell(s) == [t |-> "int", v |-> StripZeros(s)]

\* str < str, character by character
RECURSIVE StrLess(_, _)
StrLess(a, b) ==
    IF b = <<>> THEN FALSE
    ELSE IF a = <<>> THEN TRUE
    ELSE IF a[1] = b[1] THEN StrLess(Tail(a), Tail(b))
    ELSE DigitValue(a[1]) < DigitValue(b[1])

\* int < int, on the digits
IntLess(a, b) == Len(a) < Len(b) \/ (Len(a) = Len(b) /\ StrLess(a, b))

\* what the calls of main give as keywords: (keyword, frequency) pairs
TrendKeywordLists ==
    {<<>>,
     <<[keyword |-> <<"f", "l", "u">>, frequency |-> 3]>>,
     <<[keyword |-> <<"c", "o", "l", "d">>, frequency |-> 2],
       [keyword |-> <<"f", "l", "u">>, frequency |-> 1]>>}

\* lines 94-99: the rows of this call; the date cell is the str date_str
NewRows(keywords, date_str) ==
    [i \in DOMAIN keywords |->
        [date |-> StrCell(date_str), rank |-> i,
         keyword |-> keywords[i].keyword,
         frequency |-> keywords[i].frequency]]

\* line 102, pd.read_csv without dtype: a column whose fields are all
\* digits is read as int64, any other as str
ReadCsv(lines) ==
    LET numeric == \A i \in DOMAIN lines : IsDigits(lines[i].date)
    IN  [i \in DOMAIN lines |->
            [lines[i] EXCEPT !.date = IF numeric THEN IntCell(@)
                                      ELSE StrCell(@)]]

\* line 112, to_csv: a cell is written as its text
ToCsv(rows) == [i \in DOMAIN rows |-> [rows[i] EXCEPT !.date = @.v]]

\* line 104, Series != str: a str cell is compared with the str, an int
\* cell is never equal to a str
CellNe(c, s) == c.t # "str" \/ c.v # s

\* line 104: the rows of the other dates are kept
DropDate(existing, date_str) ==
    SelectSeq(existing, LAMBDA r : CellNe(r.date, date_str))

\* the order of sort_values(["date", "rank"]) when it sorts: numbers before
\* strings in a column that has both, then rank
CellLess(c, e) ==
    IF c.t # e.t THEN c.t = "int"
    ELSE IF c.t = "int" THEN IntLess(c.v, e.v) ELSE StrLess(c.v, e.v)

KeyLess(r, s) ==
    \/ CellLess(r.date, s.date)
    \/ r.date = s.date /\ r.rank < s.rank

\* r is put after the rows of sorted that are not greater: the sort is stable
Insert(r, sorted) ==
    LET k == Cardinality({i \in DOMAIN sorted : ~KeyLess(r, sorted[i])})
    IN  SubSeq(sorted, 1, k) \o <<r>> \o SubSeq(sorted, k + 1, Len(sorted))

\* line 109
RECURSIVE SortValues(_)
SortValues(rows) ==
    IF rows = <<>> THEN <<>>
    ELSE Insert(rows[Len(rows)], SortValues(SubSeq(rows, 1, Len(rows) - 1)))

\* the date column holds int cells and str cells
MixedDates(rows) ==
    \E i, j \in DOMAIN rows : rows[i].date.t # rows[j].date.t

\* lines 87-113, append_trend: the outcomes of a call on the file. With no
\* file and no keyword, new_rows has no column and sort_values raises
\* KeyError at line 109. With int and str in the date column, sort_values
\* either sorts numbers before strings or raises TypeError, as the pandas
\* installed does: both are outcomes. A call that raises leaves the file.
AppendTrend(file, keywords, date_str) ==
    LET new_rows == NewRows(keywords, date_str)
        existing == DropDate(ReadCsv(file.lines), date_str)
        combined == IF file.exists THEN existing \o new_rows ELSE new_rows
        written == [file |-> [exists |-> TRUE,
                              lines |-> ToCsv(SortValues(combined))],
                    raised |-> "none"]
    IN  IF ~file.exists /\ keywords = <<>>
        THEN {[file |-> file, raised |-> "KeyError"]}
        ELSE IF MixedDates(combined)
        THEN {written, [file |-> file, raised |-> "TypeError"]}
        ELSE {written}

(***************************************************************************)
(* main.py, main: the run of collect_all_news above is its line 145.       *)
(***************************************************************************)
\* what extract_top_keywords may return: no keyword, or some
KeywordLists == {<<>>, <<[keyword |-> <<"f", "l", "u">>, frequency |-> 2]>>}

\* mutant: a single article counts as no article
NoArticlesOrOne(a) == Len(a) <= 1

\* main.py line 146: not articles
NoArticles(a) == a = <<>>

\* main.py lines 146-148: no article was collected, sys.exit(1)
MainNoArticles ==
    /\ pc = "done"
    /\ NoArticles(deduped)
    /\ exit_code' = <<1>>
    /\ pc' = "exit"
    /\ UNCHANGED <<naverVars, getVars, googleVars, deduped, trace, aloneVars,
                   saved, sent>>

\* main.py line 138: the date of the run
Today == <<"2", "0", "2", "6", "1", "1", "0", "2">>

\* keyword_trend.csv when main starts: none on the first run, or the file
\* an earlier run of the day wrote
TrendFiles ==
    {NoFile,
     [exists |-> TRUE,
      lines |-> ToCsv(NewRows(<<[keyword |-> <<"f", "l", "u">>,
                                 frequency |-> 2]>>, Today))]}

\* main.py lines 151-163: the keywords are extracted (none is only a
\* warning) and save_news, save_keywords and append_trend are called; main
\* returns, or ends with the exception append_trend raised (exit status 1)
MainPersist ==
    /\ pc = "done"
    /\ ~NoArticles(deduped)
    /\ \E keywords \in KeywordLists, file \in TrendFiles :
          \E out \in AppendTrend(file, keywords, Today) :
              LET calls_made ==
                      <<[call |-> "save_news", rows |-> Len(deduped)],
                        [call |-> "save_keywords", rows |-> Len(keywords)],
                        [call |-> "append_trend", rows |-> Len(keywords)]>>
              IN  /\ saved' = calls_made
                  /\ trend' = out.file
                  /\ exit_code' = IF out.raised = "none" THEN <<0>> ELSE <<1>>
    /\ pc' = "exit"
    /\ UNCHANGED <<naverVars, getVars, googleVars, deduped, trace, parseVars,
                   entryVars, feedVars, latest, calls, sent>>

Next ==
    \/ NaverQuery
    \/ NaverFetch
    \/ NaverPagesDone
    \/ GetOk
    \/ GetTransportError
    \/ GetHttpError
    \/ NaverNoResponse
    \/ NaverEmptyPage
    \/ NaverAppend
    \/ NaverQueryEnd
    \/ NaverReturn
    \/ GoogleFeedError
    \/ GoogleFeed
    \/ CollectAll
    \/ MainNoArticles
    \/ MainPersist

Spec == Init /\ [][Next]_vars

\* the run of collect_all_news alone, up to its return, with the requests
\* counted
InitWork ==
    /\ pc = "naver_query"
    /\ qi = 1 /\ page = 0 /\ count = 0 /\ articles = <<>>
    /\ url = NoUrl /\ attempt = 0 /\ backoff = <<>> /\ requests = <<>>
    /\ resp = None
    /\ gi = 1 /\ google = <<>> /\ deduped = <<>> /\ trace = <<>>
    /\ sent = <<0>>
    /\ html = Document(<<>>, <<>>, <<>>) /\ items = <<>>
    /\ entry = NoEntry /\ record = NoRecord
    /\ feed_entries = <<>> /\ feed_articles = <<>>
    /\ trend = NoFile /\ latest = NoCalls /\ calls = <<>>
    /\ exit_code = <<>> /\ saved = <<>>

CollectNext ==
    \/ NaverQuery
    \/ NaverFetch
    \/ NaverPagesDone
    \/ GetOk
    \/ GetTransportError
    \/ GetHttpError
    \/ NaverNoResponse
    \/ NaverEmptyPage
    \/ NaverAppend
    \/ NaverQueryEnd
    \/ NaverReturn
    \/ GoogleFeedError
    \/ GoogleFeed
    \/ CollectAll

SpecWork == InitWork /\ [][CollectNext]_vars

(***************************************************************************)
(* _parse_naver_page called alone on every document of Documents.          *)
(***************************************************************************)
ParseInit ==
    /\ pc = "parse_call"
    /\ html \in Documents(MaxContainers)
    /\ items = <<>>
    /\ qi = 1 /\ page = 0 /\ count = 0 /\ articles = <<>>
    /\ url = NoUrl /\ attempt = 0 /\ backoff = <<>> /\ requests = <<>>
    /\ resp = None
    /\ gi = 1 /\ google = <<>> /\ deduped = <<>> /\ trace = <<>>
    /\ sent = <<>>
    /\ entry = NoEntry /\ record = NoRecord
    /\ feed_entries = <<>> /\ feed_articles = <<>>
    /\ trend = NoFile /\ latest = NoCalls /\ calls = <<>>
    /\ exit_code = <<>> /\ saved = <<>>

\* lines 116-199
ParsePage ==
    /\ pc = "parse_call"
    /\ items' = ParseNaverPage(html, queries[qi])
    /\ pc' = "parse_return"
    /\ UNCHANGED <<html, naverVars, getVars, googleVars, deduped, trace,
                   entryVars, feedVars, trendVars, mainVars, sent>>

ParseNext == ParsePage

SpecParse == ParseInit /\ [][ParseNext]_vars

(***************************************************************************)
(* The body of the loop over feed.entries (lines 85-104) called alone on   *)
(* an entry with any title of up to MaxTitleLen characters.                *)
(***************************************************************************)
TitleChars == {"a", " ", "-"}
RawTitles(n) == SeqUpTo(TitleChars, n)

\* the entries: without a title, or with a title of at most n characters
Entries(n) ==
    {Entry(t, <<<<tNews>>>>, <<hView1>>, <<>>) :
        t \in {<<>>} \cup {<<r>> : r \in RawTitles(n)}}

EntryInit ==
    /\ pc = "entry_call"
    /\ entry \in Entries(MaxTitleLen)
    /\ record = NoRecord
    /\ qi = 1 /\ page = 0 /\ count = 0 /\ articles = <<>>
    /\ url = NoUrl /\ attempt = 0 /\ backoff = <<>> /\ requests = <<>>
    /\ resp = None
    /\ gi = 1 /\ google = <<>> /\ deduped = <<>> /\ trace = <<>>
    /\ sent = <<>>
    /\ html = Document(<<>>, <<>>, <<>>) /\ items = <<>>
    /\ feed_entries = <<>> /\ feed_articles = <<>>
    /\ trend = NoFile /\ latest = NoCalls /\ calls = <<>>
    /\ exit_code = <<>> /\ saved = <<>>

\* lines 85-103
EntryRecord ==
    /\ pc = "entry_call"
    /\ record' = GoogleArticle(entry, queries[gi])
    /\ pc' = "entry_return"
    /\ UNCHANGED <<entry, naverVars, getVars, googleVars, deduped, trace,
                   parseVars, feedVars, trendVars, mainVars, sent>>

EntryNext == EntryRecord

SpecEntry == EntryInit /\ [][EntryNext]_vars

(***************************************************************************)
(* The loop over feed.entries (lines 80-104) called alone on every feed of *)
(* up to MaxFeedLen entries, for every query.                              *)
(***************************************************************************)
FeedEntryPool == {eFlu, eNoTitle, eColds, eTwoSep}

\* the feeds of at most n entries
FeedsUpTo(n) == SeqUpTo(FeedEntryPool, n)

FeedInit ==
    /\ pc = "feed_call"
    /\ feed_entries \in FeedsUpTo(MaxFeedLen)
    /\ feed_articles = <<>>
    /\ gi \in DOMAIN queries
    /\ qi = 1 /\ page = 0 /\ count = 0 /\ articles = <<>>
    /\ url = NoUrl /\ attempt = 0 /\ backoff = <<>> /\ requests = <<>>
    /\ resp = None
    /\ google = <<>> /\ deduped = <<>> /\ trace = <<>>
    /\ sent = <<>>
    /\ html = Document(<<>>, <<>>, <<>>) /\ items = <<>>
    /\ entry = NoEntry /\ record = NoRecord
    /\ trend = NoFile /\ latest = NoCalls /\ calls = <<>>
    /\ exit_code = <<>> /\ saved = <<>>

\* lines 80-104
FeedLoop ==
    /\ pc = "feed_call"
    /\ feed_articles' = GoogleEntries(feed_entries, 1, 0, queries[gi])
    /\ pc' = "feed_return"
    /\ UNCHANGED <<feed_entries, naverVars, getVars, gi, google, deduped,
                   trace, parseVars, entryVars, trendVars, mainVars, sent>>

FeedNext == FeedLoop

SpecFeed == FeedInit /\ [][FeedNext]_vars

(***************************************************************************)
(* append_trend called alone: a sequence of calls on the file, from no     *)
(* file, with any date and any keywords.                                   *)
(***************************************************************************)
TrendInit ==
    /\ pc = "trend"
    /\ trend = NoFile /\ latest = NoCalls /\ calls = <<>>
    /\ qi = 1 /\ page = 0 /\ count = 0 /\ articles = <<>>
    /\ url = NoUrl /\ attempt = 0 /\ backoff = <<>> /\ requests = <<>>
    /\ resp = None
    /\ gi = 1 /\ google = <<>> /\ deduped = <<>> /\ trace = <<>>
    /\ sent = <<>>
    /\ html = Document(<<>>, <<>>, <<>>) /\ items = <<>>
    /\ entry = NoEntry /\ record = NoRecord
    /\ feed_entries = <<>> /\ feed_articles = <<>>
    /\ exit_code = <<>> /\ saved = <<>>

\* lines 87-113: one call
TrendCall ==
    /\ pc = "trend"
    /\ Len(calls) < MaxCalls
    /\ \E date_str \in Dates, keywords \in TrendKeywordLists :
          \E out \in AppendTrend(trend, keywords, date_str) :
              /\ trend' = out.file
              /\ latest' = [latest EXCEPT ![date_str] = <<keywords>>]
              /\ calls' = Append(calls, out.raised)
    /\ UNCHANGED <<pc, naverVars, getVars, googleVars, deduped, trace,
                   parseVars, entryVars, feedVars, mainVars, sent>>

TrendNext == TrendCall

SpecTrend == TrendInit /\ [][TrendNext]_vars

(***************************************************************************)
(* Properties.                                                             *)
(***************************************************************************)
Range(seq) == {seq[i] : i \in DOMAIN seq}

\* the dedup key of the data model: lowercase(trim(title))
TitleKey(r) == Lower(Strip(r.title))

\* the number of records of the page collector kept for query number q
Retained(q) ==
    Cardinality({i \in DOMAIN articles : articles[i].query = queries[q]})

\* the items of the pages of query number q appended so far
RECURSIVE PageItems(_, _)
PageItems(tr, q) ==
    IF tr = <<>> THEN 0
    ELSE (IF Head(tr).e = "page" /\ Head(tr).at = 227 /\ Head(tr).q = q
          THEN Head(tr).n ELSE 0) + PageItems(Tail(tr), q)

\* position i of the trace is the fetch of a page of the page provider
IsPageFetch(i) == trace[i].e = "fetch" /\ trace[i].at = 217

\* the page collector has returned
NaverDone == pc \in {"google_query", "done"}

\* C1 (as claimed): the page collector never retains more than
\* MAX_ARTICLES_PER_QUERY records for one query, over all of its pages.
C1_PerQueryCap ==
    \A q \in DOMAIN queries : Retained(q) <= MAX_ARTICLES_PER_QUERY

\* the backoff sleeps 2, 4, ..., 2^(n-1) between n attempts
ExpectedBackoff(n) == [i \in 1..(n - 1) |-> 2 ^ i]

\* C2: when _get returns after failing on attempts 1..N-1 and succeeding on
\* attempt N, it has made exactly N requests (a success is always the last
\* request of the call), it returns the response of the N-th request, and
\* its backoff sleeps were 2, 4, ..., 2^(N-1) in that order.
C2_RetrySuccess ==
    /\ \A i \in DOMAIN requests : requests[i].ok => i = Len(requests)
    /\ (pc = "naver_resp" /\ requests # <<>> /\ requests[Len(requests)].ok)
          => /\ Len(requests) <= MAX_RETRIES
             /\ resp = requests[Len(requests)]
             /\ resp.text \in PageDocs
             /\ backoff = ExpectedBackoff(Len(requests))

\* C2 witness: _get has returned the response of its last allowed attempt
C2_Witness ==
    /\ pc = "naver_resp"
    /\ Len(requests) = MAX_RETRIES
    /\ resp.ok
    /\ backoff = <<2, 4>>

\* C3: when every attempt of _get fails, it returns None (and the caller goes
\* on) after exactly MAX_RETRIES requests, having slept 2^attempt after every
\* failed attempt but the last.
C3_RetryExhausted ==
    (pc = "naver_resp" /\ \A i \in DOMAIN requests : ~requests[i].ok)
       => /\ Len(requests) = MAX_RETRIES
          /\ resp = None
          /\ Len(backoff) = MAX_RETRIES - 1
          /\ \A a \in DOMAIN backoff : backoff[a] = 2 ^ a

\* C3 witness: _get has returned None after MAX_RETRIES failed attempts
C3_Witness ==
    /\ pc = "naver_resp"
    /\ resp = None
    /\ Len(requests) = MAX_RETRIES
    /\ \A i \in DOMAIN requests : ~requests[i].ok
    /\ backoff = <<2, 4>>

\* C4: no two records of the output of collect_all_news have the same
\* dedup key lowercase(trim(title)).
C4_UniqueKeys ==
    \A i, j \in DOMAIN deduped :
        i # j => TitleKey(deduped[i]) # TitleKey(deduped[j])

\* C4 witness: a record was dropped whose title differs from the title of
\* the kept record with the same key
C4_Witness ==
    /\ pc = "done"
    /\ \E r \in Range(articles \o google), k \in Range(deduped) :
          /\ TitleKey(r) = TitleKey(k)
          /\ r.title # k.title
          /\ r \notin Range(deduped)

\* the records of all at the positions from i on that are first occurrences
\* of a non-empty key
RECURSIVE FirstOccurrences(_, _)
FirstOccurrences(all, i) ==
    IF i > Len(all) THEN <<>>
    ELSE (IF /\ TitleKey(all[i]) # <<>>
             /\ \A j \in 1..(i - 1) : TitleKey(all[j]) # TitleKey(all[i])
          THEN <<all[i]>> ELSE <<>>) \o FirstOccurrences(all, i + 1)

\* C5: the output of collect_all_news is the subsequence of the page records
\* followed by the feed records made of the records whose key is non-empty
\* and differs from the key of every earlier record; a feed record is
\* never kept when a page record has its key.
C5_FirstOccurrences ==
    pc = "done"
       => /\ deduped = FirstOccurrences(articles \o google, 1)
          /\ \A k \in Range(deduped) :
                k.source = "google"
                   => \A r \in Range(articles) : TitleKey(r) # TitleKey(k)

\* C5 witness: a page record is kept and a feed record of the same key dropped
C5_Witness ==
    /\ pc = "done"
    /\ \E k \in Range(deduped), r \in Range(google) :
          /\ k.source = "naver"
          /\ TitleKey(r) = TitleKey(k)
          /\ r.title # k.title

\* the fetches of pages of the page provider after position i of the trace
LaterFetches(i) == {j \in (i + 1)..Len(trace) : IsPageFetch(j)}

\* the records of the pages of every query are all kept
PageItemsKept == \A q \in DOMAIN queries : Retained(q) = PageItems(trace, q)

\* C6: after a page of a query with no parsed item no further page of that
\* query is fetched, the run goes on, and the items of the earlier pages are
\* kept.
C6_EmptyPageStops ==
    /\ \A i \in DOMAIN trace :
          (trace[i].e = "page" /\ trace[i].at = 223)
             => /\ \A j \in LaterFetches(i) : trace[j].q # trace[i].q
                /\ i < Len(trace) => /\ trace[i + 1].e = "sleep"
                                     /\ trace[i + 1].at = 236
    /\ PageItemsKept

\* C6 witness: a run in which a page of a query was empty after a page
\* with items, and a page of another query was empty with a page of the
\* budget left
C6_Witness ==
    /\ pc = "done"
    /\ \E i \in DOMAIN trace :
          /\ trace[i].e = "page" /\ trace[i].at = 223
          /\ trace[i].page > 0
          /\ Retained(trace[i].q) > 0
    /\ \E i \in DOMAIN trace :
          /\ trace[i].e = "page" /\ trace[i].at = 223
          /\ trace[i].page + 1 < MAX_PAGES_PER_QUERY

\* C7: when _get returns no result for a page of query q, neither that page
\* nor a later page of q is fetched, the items collected so far are kept,
\* and the next query is fetched from page 0 with a count of 0.
C7_NetworkFailureStopsQuery ==
    /\ \A i \in DOMAIN trace :
          (trace[i].e = "none" /\ trace[i].at = 218)
             => LET later == LaterFetches(i)
                    next == CHOOSE j \in later : \A k \in later : j <= k
                IN  /\ \A j \in later : trace[j].q # trace[i].q
                    /\ later # {} => /\ trace[next].q = trace[i].q + 1
                                     /\ trace[next].page = 0
                                     /\ trace[next].n = 0
                    /\ (NaverDone /\ trace[i].q < Len(queries)) => later # {}
    /\ PageItemsKept

\* C7 witness: the second page of the first query had no response, the first
\* had items, and the second query collected items
C7_Witness ==
    /\ pc = "done"
    /\ \E i \in DOMAIN trace :
          /\ trace[i].e = "none" /\ trace[i].at = 218
          /\ trace[i].q = 1 /\ trace[i].page = 1
          /\ Retained(1) > 0 /\ Retained(2) > 0

\* C8: between two consecutive fetches of a provider (a page fetch with its
\* retries, or a feed fetch) there is at least one _sleep.
C8_SleepBetweenFetches ==
    \A i \in DOMAIN trace :
        trace[i].e = "fetch"
           => \A j \in (i + 1)..Len(trace) :
                 trace[j].e = "fetch"
                    => \E k \in (i + 1)..(j - 1) : trace[k].e = "sleep"

\* C8 witness: a run with a page fetch that failed, one that reached the
\* cap, one followed by a further page, and a feed fetch that failed
C8_Witness ==
    /\ pc = "done"
    /\ \E i \in DOMAIN trace : trace[i].at = 218
    /\ \E i \in DOMAIN trace : trace[i].at = 233
    /\ \E i \in DOMAIN trace : trace[i].at = 75
    /\ \E i \in DOMAIN trace :
          /\ trace[i].at = 227
          /\ i < Len(trace)
          /\ trace[i + 1].at = 236

\* the item comes from an anchor of a current-layout container of doc
FromCurrentLayout(it, doc) ==
    \E c \in Range(doc.cards) : \E a \in Range(c.links) :
        it.link = a.href /\ it.title = GetText(a.text, <<>>)

\* the item comes from the title anchor of a legacy item of doc
FromLegacyLayout(it, doc) ==
    \E li \in Range(doc.li_bx) \cup Range(doc.news_wrap) :
        /\ li.news_tit # <<>>
        /\ it.link = li.news_tit[1].href
        /\ it.title = GetText(li.news_tit[1].text, <<>>)

\* C9: for a document with a current-layout container every item of
\* _parse_naver_page comes from such a container and none from a legacy item;
\* for a document without one every item comes from a legacy item, and every
\* legacy item of the selected list with a title anchor gives one.
C9_LayoutExclusive ==
    pc = "parse_return"
       => IF html.cards # <<>>
          THEN \A it \in Range(items) :
                  FromCurrentLayout(it, html) /\ ~FromLegacyLayout(it, html)
          ELSE /\ \A it \in Range(items) :
                     FromLegacyLayout(it, html) /\ ~FromCurrentLayout(it, html)
               /\ LET used == IF html.li_bx # <<>>
                              THEN html.li_bx ELSE html.news_wrap
                  IN  Len(items) = Cardinality({i \in DOMAIN used :
                                                   used[i].news_tit # <<>>})

\* C9 witness: a document with current-layout containers that are all
\* rejected and with legacy items that have a title anchor: no item
C9_Witness ==
    /\ pc = "parse_return"
    /\ html.cards # <<>>
    /\ \E li \in Range(html.li_bx) : li.news_tit # <<>>
    /\ items = <<>>

\* C10: no record of the output of collect_all_news has a title that is
\* empty after trimming.
C10_TitlesNotEmpty ==
    \A k \in Range(deduped) : Strip(k.title) # <<>>

\* C10 witness: the collectors gave a legacy item whose title anchor has no
\* text and a feed entry without a title, and the output is not empty
C10_Witness ==
    /\ pc = "done"
    /\ deduped # <<>>
    /\ \E r \in Range(articles) : r.title = <<>>
    /\ \E r \in Range(google) : r.title = <<>>

\* s has no whitespace at either end
Trimmed(s) == s = <<>> \/ (s[1] \notin Whitespace /\ s[Len(s)] \notin Whitespace)

\* C11 (collect_google_news lines 86-103, _parse_naver_page lines 136-167):
\* in every record collect_all_news returns, whichever collector made it,
\* the title, the description, the link and the publication date have no
\* whitespace at either end.
C11_FieldsTrimmed ==
    pc = "done" =>
        \A i \in DOMAIN deduped :
            /\ Trimmed(deduped[i].title)
            /\ Trimmed(deduped[i].description)
            /\ Trimmed(deduped[i].link)
            /\ Trimmed(deduped[i].published)

\* the positions of trace where a feed is fetched
IsFeedFetch(i) == trace[i].e = "fetch" /\ trace[i].at = 74

\* collect_naver_news has returned; collect_all_news has returned
PagesCollected == pc \in {"google_query", "done", "exit"}
AllCollected == pc \in {"done", "exit"}

\* C12 (collect_all_news lines 245-251, collect_naver_news lines 207-217):
\* every page fetch comes before every feed fetch; the page fetches go
\* through the queries in the input order, the pages of one query in
\* increasing order; the feed is fetched once per query, in the input order.
C12_FetchOrder ==
    /\ \A i, j \in DOMAIN trace :
          (i < j /\ trace[i].e = "fetch" /\ trace[j].e = "fetch") =>
              /\ IsFeedFetch(i) => IsFeedFetch(j)
              /\ (IsPageFetch(i) /\ IsPageFetch(j)) =>
                    \/ trace[i].q < trace[j].q
                    \/ trace[i].q = trace[j].q /\ trace[i].page < trace[j].page
              /\ (IsFeedFetch(i) /\ IsFeedFetch(j)) => trace[i].q < trace[j].q
    /\ PagesCollected =>
          \A q \in DOMAIN queries :
              \E i \in DOMAIN trace : IsPageFetch(i) /\ trace[i].q = q
    /\ AllCollected =>
          \A q \in DOMAIN queries :
              \E i \in DOMAIN trace : IsFeedFetch(i) /\ trace[i].q = q

\* a finished run of two queries or more where a query fetched two pages
C12_Witness ==
    /\ pc = "done"
    /\ Len(queries) >= 2
    /\ \E i, j \in DOMAIN trace :
          /\ IsPageFetch(i) /\ IsPageFetch(j)
          /\ trace[i].q = trace[j].q /\ trace[i].page < trace[j].page
    /\ Cardinality({i \in DOMAIN trace : IsFeedFetch(i)}) = Len(queries)

\* the names of the persistence calls main has made, in order
SavedCalls == [i \in DOMAIN saved |-> saved[i].call]

\* C13 (main.py lines 144-158, collect_all_news lines 245-266): main ends
\* with a failure exit exactly when collect_all_news returned no record; it
\* never ends before collect_all_news has returned, whatever fetch failed or
\* came back empty, and when a record was returned the three persistence
\* steps are executed, in order, on the records returned.
C13_ExitOnlyWhenEmpty ==
    /\ pc # "exit" => exit_code = <<>> /\ saved = <<>>
    /\ pc = "exit" =>
          /\ exit_code = <<1>> <=> deduped = <<>>
          /\ deduped = <<>> => saved = <<>>
          /\ deduped # <<>> =>
                /\ exit_code = <<0>>
                /\ SavedCalls = <<"save_news", "save_keywords", "append_trend">>
                /\ saved[1].rows = Len(deduped)

\* main has ended normally after a run with a page without a response, an
\* empty page and a feed that failed
C13_Witness ==
    /\ pc = "exit"
    /\ deduped # <<>>
    /\ Len(saved) = 3
    /\ \E i \in DOMAIN trace : trace[i].e = "none" /\ trace[i].at = 218
    /\ \E i \in DOMAIN trace : trace[i].e = "page" /\ trace[i].at = 223
    /\ \E i \in DOMAIN trace : trace[i].e = "none" /\ trace[i].at = 75

\* the records of the feed collector made for the query of index q
FeedRecords(q) == SelectSeq(google, LAMBDA r : r.query = queries[q])

\* the positions of trace where the feed of a query failed
IsFeedFailure(i) == trace[i].e = "none" /\ trace[i].at = 75

\* C14 (collect_google_news lines 69-78): a feed that fails for a query
\* skips that query only: no record is emitted for it, the records of the
\* queries before it are kept, the queries after it are fetched in order,
\* and collect_google_news returns.
C14_FeedFailureSkipsQuery ==
    \A i \in DOMAIN trace :
        IsFeedFailure(i) =>
            LET q == trace[i].q
            IN  /\ FeedRecords(q) = <<>>
                /\ \A j \in 1..(i - 1) :
                      (trace[j].e = "page" /\ trace[j].at = 106) =>
                          Len(FeedRecords(trace[j].q)) = trace[j].n
                /\ i + 1 \in DOMAIN trace /\ trace[i + 1].e = "sleep"
                /\ i + 2 \in DOMAIN trace =>
                      IsFeedFetch(i + 2) /\ trace[i + 2].q = q + 1
                /\ gi > q
                /\ AllCollected =>
                      \A q2 \in (q + 1)..Len(queries) :
                          \E j \in (i + 1)..Len(trace) :
                              IsFeedFetch(j) /\ trace[j].q = q2

\* the feed of the first query failed and a later query has feed records
C14_Witness ==
    /\ pc = "done"
    /\ \E i \in DOMAIN trace : IsFeedFailure(i) /\ trace[i].q = 1
    /\ \E q \in 2..Len(queries) : FeedRecords(q) # <<>>
    /\ FeedRecords(1) = <<>>

\* the collector and the query of each record collected, in the order of
\* collection, from the results of the fetches
RECURSIVE Origins(_)
Origins(tr) ==
    IF tr = <<>> THEN <<>>
    ELSE LET ev == Head(tr)
             from == [source |-> IF ev.at = 106 THEN "google" ELSE "naver",
                      query |-> queries[ev.q]]
         IN  (IF ev.e = "page" THEN [k \in 1..ev.n |-> from] ELSE <<>>)
             \o Origins(Tail(tr))

\* no two records collected have the same key, and no key is empty
AllKeysDistinct ==
    LET all == articles \o google
    IN  /\ \A i \in DOMAIN all : TitleKey(all[i]) # <<>>
        /\ \A i, j \in DOMAIN all :
              i # j => TitleKey(all[i]) # TitleKey(all[j])

\* C15 (collect_all_news lines 245-266, lines 95-103 and 159-167): when no
\* two records collected share a key and no title is empty, the result has
\* as many records as the pages and the feeds gave together, and each of
\* its records names the collector that made it and the query it was
\* fetched for.
C15_CountAndOrigin ==
    (AllCollected /\ AllKeysDistinct) =>
        LET origins == Origins(trace)
        IN  /\ Len(deduped) = Len(origins)
            /\ \A k \in DOMAIN deduped :
                  /\ deduped[k].source = origins[k].source
                  /\ deduped[k].query = origins[k].query

\* a result without duplicates with records of both collectors
C15_Witness ==
    /\ pc = "done"
    /\ AllKeysDistinct
    /\ articles # <<>>
    /\ Len(google) >= 2
    /\ Len(deduped) = Len(articles) + Len(google)

\* C16 (lines 28-34, _get lines 46-52, collect_google_news lines 70-74):
\* every request of collect_all_news, for a page or for a feed, is sent with
\* the fixed header set _HEADERS.
C16_SameHeaders ==
    \A i \in DOMAIN trace :
        trace[i].e = "fetch" => RequestHeaders(trace[i]) = HEADERS

\* the positions of s where the separator of a feed title starts
SepAt(s) == {k \in 1..(Len(s) - 2) : SubSeq(s, k, k + 2) = <<" ", "-", " ">>}

\* t is the text of s before the last separator of s
IsBeforeLastSep(t, s) ==
    /\ Len(t) + 1 \in SepAt(s)
    /\ \A k \in SepAt(s) : k <= Len(t) + 1
    /\ t = SubSeq(s, 1, Len(t))

\* raw_title of line 86, the title of the entry as the code takes it
RawTitleOf(e) == IF e.title = <<>> THEN <<>> ELSE Strip(e.title[1])

\* C17 (collect_google_news lines 85-87): when the raw title of a feed
\* entry contains " - ", the title of its record is the text before the
\* last " - "; when it contains none, the title is the raw title.
C17_TitleSuffix ==
    pc = "entry_return" =>
        LET raw == RawTitleOf(entry)
        IN  IF SepAt(raw) # {}
            THEN IsBeforeLastSep(record.title, raw)
            ELSE record.title = raw

\* a title with two separators: the record keeps the first of them
C17_Witness ==
    /\ pc = "entry_return"
    /\ Cardinality(SepAt(RawTitleOf(entry))) = 2
    /\ SepAt(record.title) # {}

\* the list of items the legacy layout selects in doc
LegacyList(doc) == IF doc.li_bx # <<>> THEN doc.li_bx ELSE doc.news_wrap

\* a page has been received whose current-layout containers are all
\* rejected, while its legacy items would give records
RejectedCardsPage ==
    /\ pc = "naver_resp"
    /\ resp.ok
    /\ resp.text.cards # <<>>
    /\ ParseCurrent(resp.text.cards, queries[qi]) = <<>>
    /\ ParseLegacy(LegacyList(resp.text), queries[qi]) # <<>>

\* C18 as claimed (_parse_naver_page lines 123-173, collect_naver_news
\* lines 222-225): when the current layout yields no item and the legacy
\* layout would yield items, the legacy items are the result of the page
\* and the pagination of the query goes on.
C18_FallbackOnFirstNonEmpty ==
    [][RejectedCardsPage =>
          /\ articles' = articles \o ParseLegacy(LegacyList(resp.text),
                                                 queries[qi])
          /\ pc' = IF CapReached(count') THEN "naver_query_end"
                   ELSE "naver_page"]_vars

\* C18 as amended: a page with a current-layout container gives the items
\* of its containers and nothing else; when they are all rejected the page
\* gives no record, even if its legacy items would, and the pagination of
\* the query stops there.
C18_FirstLayoutWithContainers ==
    [][(pc = "naver_resp" /\ resp.ok /\ resp.text.cards # <<>>) =>
          LET cur == ParseCurrent(resp.text.cards, queries[qi])
          IN  /\ articles' = articles \o cur
              /\ cur = <<>> => pc' = "naver_query_end" /\ count' = count]_vars

\* such a page is received when records have been collected already
C18_Witness == RejectedCardsPage /\ articles # <<>>

\* the positions of trace where the items of a page are appended
IsPageAppend(i) == trace[i].e = "page" /\ trace[i].at = 227

\* count after the append at position i: the count at the fetch of the
\* page, which is the event before, plus the items of the page
CountAfter(i) == trace[i - 1].n + trace[i].n

\* C19 (collect_naver_news lines 207-231): as soon as count has reached
\* MAX_ARTICLES_PER_QUERY after the append of a page, no further page of
\* that query is fetched: the next page fetched is page 0 of the next
\* query, with count 0.
C19_CapStopsPagination ==
    \A i \in DOMAIN trace :
        (IsPageAppend(i) /\ CountAfter(i) >= MAX_ARTICLES_PER_QUERY) =>
            /\ \A j \in LaterFetches(i) : trace[j].q # trace[i].q
            /\ \A j \in LaterFetches(i) :
                  (\A k \in LaterFetches(i) : j <= k) =>
                      /\ trace[j].q = trace[i].q + 1
                      /\ trace[j].page = 0
                      /\ trace[j].n = 0

\* the cap is reached at a page that is not the last one of the budget,
\* and the next query is fetched
C19_Witness ==
    \E i \in DOMAIN trace :
        /\ IsPageAppend(i)
        /\ CountAfter(i) >= MAX_ARTICLES_PER_QUERY
        /\ trace[i].page + 1 < MAX_PAGES_PER_QUERY
        /\ LaterFetches(i) # {}

\* the page fetches of the query of index q, in order
PageFetches(q) ==
    SelectSeq(trace, LAMBDA ev : ev.e = "fetch" /\ ev.at = 217 /\ ev.q = q)

\* C20 (collect_naver_news lines 211-217): the pages of a query are fetched
\* as p = 0, 1, 2, ... without a gap or a repetition, at most
\* MAX_PAGES_PER_QUERY of them, and page p is requested with the result
\* offset p * 10 + 1.
C20_PagesAndOffsets ==
    /\ \A q \in DOMAIN queries :
          /\ Len(PageFetches(q)) <= MAX_PAGES_PER_QUERY
          /\ \A k \in DOMAIN PageFetches(q) : PageFetches(q)[k].page = k - 1
    /\ pc = "get" =>
          LET fetch == trace[Len(trace)]
          IN  /\ fetch.e = "fetch" /\ fetch.at = 217
              /\ url.query = Quote(queries[fetch.q])
              /\ url.start = 10 * fetch.page + 1

\* the second page of a query is being requested, with offset 11
C20_Witness ==
    /\ pc = "get"
    /\ trace[Len(trace)].page = 1
    /\ url.start = 11
    /\ Len(PageFetches(qi)) = 2

\* the positions of trace where a _sleep of the page loop (line 233) is taken
IsPageSleep(i) == trace[i].e = "sleep" /\ trace[i].at = 233

\* C21 (collect_naver_news lines 211-236): the delay of the page loop is
\* taken after a page only if another page of the same query is fetched
\* afterwards; when the pagination of a query ends, by a page without a
\* response, an empty page, the cap or the page budget, the only delay
\* before the next query is the one of the query loop.
C21_PageSleepOnlyBeforeNextPage ==
    \A i \in DOMAIN trace :
        IsPageSleep(i) =>
            IF i = Len(trace)
            THEN pc = "naver_page"
            ELSE /\ IsPageFetch(i + 1)
                 /\ trace[i + 1].q = trace[i].q
                 /\ trace[i + 1].page = trace[i].page + 1

\* C22 (collect_google_news lines 80-104): for every query and every feed
\* the records emitted for the query are at most MAX_ARTICLES_PER_QUERY,
\* and they are the records of the first entries of the feed, in the order
\* of the feed.
C22_FeedCap ==
    pc = "feed_return" =>
        /\ Len(feed_articles) <= MAX_ARTICLES_PER_QUERY
        /\ Len(feed_articles) <= Len(feed_entries)
        /\ \/ Len(feed_articles) = MAX_ARTICLES_PER_QUERY
           \/ Len(feed_articles) = Len(feed_entries)
        /\ \A k \in DOMAIN feed_articles :
              feed_articles[k] = GoogleArticle(feed_entries[k], queries[gi])

\* a feed with more entries than the cap, its last entry unlike its first
C22_Witness ==
    /\ pc = "feed_return"
    /\ Len(feed_entries) > MAX_ARTICLES_PER_QUERY
    /\ Len(feed_articles) = MAX_ARTICLES_PER_QUERY
    /\ feed_entries[Len(feed_entries)] # feed_entries[1]
    /\ feed_articles[1] # feed_articles[2]

\* an upper bound of the number of steps the run can still take: a page
\* costs its fetch, MAX_RETRIES attempts and its result; a query costs its
\* start, MAX_PAGES_PER_QUERY pages, the end of its page loop and its end
PageSteps == MAX_RETRIES + 2
QuerySteps == MAX_PAGES_PER_QUERY * PageSteps + 3
FeedPhaseSteps(g) == (Len(queries) + 1 - g) + 1
AfterQuery(q) == (Len(queries) - q) * QuerySteps + 1 + FeedPhaseSteps(1)
AfterPage(q, p) == (MAX_PAGES_PER_QUERY - p) * PageSteps + 2 + AfterQuery(q)
StepsLeft ==
    CASE pc = "naver_query" -> QuerySteps + AfterQuery(qi)
      [] pc = "naver_page" -> AfterPage(qi, page)
      [] pc = "get" -> (MAX_RETRIES + 1 - attempt) + 1 + AfterPage(qi, page + 1)
      [] pc = "naver_resp" -> 1 + AfterPage(qi, page + 1)
      [] pc = "naver_query_end" -> 1 + AfterQuery(qi)
      [] pc = "google_query" -> FeedPhaseSteps(gi)
      [] pc = "done" -> 0

\* the requests sent and the feeds fetched are within their bounds, and the
\* steps left are counted down to the return and no further
C23_Bounds ==
    /\ sent[1] <= Len(queries) * MAX_PAGES_PER_QUERY * MAX_RETRIES
    /\ \A q \in DOMAIN queries :
          Cardinality({i \in DOMAIN trace : IsFeedFetch(i) /\ trace[i].q = q})
              = IF AllCollected \/ q < gi THEN 1 ELSE 0
    /\ StepsLeft >= 0
    /\ StepsLeft = 0 <=> AllCollected

\* C23 (_get lines 46-57, collect_naver_news lines 202-238,
\* collect_google_news lines 64-109): whatever the providers do,
\* collect_all_news returns: every step of the run lowers StepsLeft, which
\* is never negative, so that no run loops; the page collector sends at most
\* |queries| * MAX_PAGES_PER_QUERY * MAX_RETRIES requests, and the feed
\* collector fetches one feed per query, exactly one once it has returned.
C23_BoundedWork == []C23_Bounds /\ [][StepsLeft' < StepsLeft]_vars

\* collect_all_news has returned, and every page of the budget of every
\* query took MAX_RETRIES requests
C23_Witness ==
    /\ pc = "done"
    /\ sent[1] = Len(queries) * MAX_PAGES_PER_QUERY * MAX_RETRIES

\* the lines of the table for date d, in the order of the table
TableRows(d) == SelectSeq(trend.lines, LAMBDA r : r.date = d)

\* C24 (main.py, append_trend lines 87-113): after any sequence of calls the
\* table holds, for each date, exactly the rows of the latest call for that
\* date (none before any call), so that a second call for a date replaces
\* its rows and leaves the rows of the other dates, and the table is sorted
\* by (date, rank).
C24_RerunOverwrites ==
    /\ \A d \in Dates :
          TableRows(d) = IF latest[d] = <<>> THEN <<>>
                         ELSE ToCsv(NewRows(latest[d][1], d))
    /\ \A i, j \in DOMAIN trend.lines :
          i < j =>
              \/ StrLess(trend.lines[i].date, trend.lines[j].date)
              \/ /\ trend.lines[i].date = trend.lines[j].date
                 /\ trend.lines[i].rank < trend.lines[j].rank

=============================================================================
